---- MODULE Spec2Model ----
(***************************************************************************)
(* A model of the graph data model of X6: packages/x6/src/model/model.ts.  *)
(*                                                                         *)
(* The Model class is translated from model.ts.  Collection, Cell and Edge *)
(* are other files of the package; their primitives are modelled from the  *)
(* specification (sections 3 and 4.1) and are kept apart below.            *)
(*                                                                         *)
(* Every handler is a function from a world record (the fields of the      *)
(* models and of the cells, and the log of what the call has emitted so    *)
(* far) to a world record, because the handlers call each other            *)
(* recursively (removal cascades, recursive insertion of children).  The   *)
(* actions at the end apply one public method each; a call runs to         *)
(* completion before the next one starts.                                  *)
(***************************************************************************)
EXTENDS Integers, Sequences, FiniteSets, TLC

VARIABLES
    collection,   \* [Models -> Seq(Cells)]  Model.collection, in collection order
    nodes,        \* [Models -> Seq(Cells)]  Model.nodes: keys in insertion order
    edges,        \* [Models -> Seq(Cells)]  Model.edges: keys in insertion order
    batches,      \* [Models -> [BatchNames -> Int]]  Model.batches
    addings,      \* [Models -> SUBSET Cells]  Model.addings
    cellModel,    \* [Cells -> Models \cup {NoModel}]  Cell.model
    zIndex,       \* [Cells -> <<>> or <<n>>]  Cell.zIndex (<<>> is unset)
    source,       \* [Edges -> Terminal]  Edge.source
    target,       \* [Edges -> Terminal]  Edge.target
    children,     \* [Cells -> Seq(Cells)]  Cell.children
    starts,       \* [BatchNames -> Nat]  the startBatch calls on M1 so far
    stops         \* [BatchNames -> Nat]  the stopBatch calls on M1 so far

\* starts and stops are history: no code reads them.  They are counted by the
\* specification of the batch calls (SpecBatch) and stay 0 in the others.
vars == <<collection, nodes, edges, batches, addings, cellModel, zIndex,
          source, target, children, starts, stops>>

\* ------------------------------------------------------------------ bounds

MaxCells == 3
MaxListLen == 1
MaxBatchCalls == 5
MaxGraphCells == 7

\* ------------------------------------------------------------------ universe

\* The cells that exist, by ID.  A, B, C and D are nodes; E, F, K and L are
\* edges.
CellNames == <<"A", "E", "F", "B", "K", "C", "L", "D">>
CellIds == {CellNames[i] : i \in 1..Len(CellNames)}
NodeIds == {"A", "B", "C", "D"}
EdgeIds == {"E", "F", "K", "L"}

\* The cells the mutating calls are made with: the first MaxCells of the names.
Cells == {CellNames[i] : i \in 1..MaxCells}
Nodes == Cells \cap NodeIds
Edges == Cells \cap EdgeIds

Models == {"M1", "M2"}
NoModel == "null"
NoCell == "null"

BatchNames == {"add", "remove", "clear"}

Range(s) == {s[i] : i \in 1..Len(s)}

\* A terminal is a reference to a cell or a fixed point.
CellTerminal(c) == [cell |-> c, point |-> <<>>]
PointTerminal(x, y) == [cell |-> NoCell, point |-> <<x, y>>]

\* The options object of a call; the flags the model reads.
DefaultOptions == [clear |-> FALSE, disconnectEdges |-> FALSE, dry |-> FALSE]
DisconnectOptions == [DefaultOptions EXCEPT !.disconnectEdges = TRUE]
ClearOptions == [DefaultOptions EXCEPT !.clear = TRUE]

\* Cell.isEdge / Cell.isNode
isEdge(c) == c \in EdgeIds
isNode(c) == c \in NodeIds

\* The world a call starts in: the program's variables, and two empty logs:
\* `events` is what the call delivers to the listeners of the models, in order;
\* `muts` is the insertions into and removals from the collections, in order.
World ==
    [collection |-> collection, nodes |-> nodes, edges |-> edges,
     batches |-> batches, addings |-> addings, cellModel |-> cellModel,
     zIndex |-> zIndex, source |-> source, target |-> target,
     events |-> <<>>, muts |-> <<>>]

CellEvent(type, m, c, options) ==
    [type |-> type, model |-> m, cell |-> c, name |-> "", clear |-> options.clear]

BatchEvent(type, m, name) ==
    [type |-> type, model |-> m, cell |-> NoCell, name |-> name, clear |-> FALSE]

\* Model.notify (the listeners of the model; no graph is attached).  The log
\* keeps, with the event, the batch names a listener finds active on the
\* model at the delivery.
notify(w, ev) ==
    [w EXCEPT !.events = Append(@,
        [type |-> ev.type, model |-> ev.model, cell |-> ev.cell, name |-> ev.name,
         clear |-> ev.clear,
         active |-> {b \in BatchNames : w.batches[ev.model][b] > 0}])]

\* ------------------------------------------------------------------ Cell, Edge
\* (cell.ts and edge.ts: modelled from the specification, section 3)

\* Cell.getZIndex
getZIndex(w, c) == IF w.zIndex[c] = <<>> THEN 0 ELSE w.zIndex[c][1]

\* Edge.getSourceCellId / Edge.getTargetCellId: the ID the terminal stores.
getSourceCellId(w, e) == w.source[e].cell
getTargetCellId(w, e) == w.target[e].cell

\* Edge.getSourceCell / Edge.getTargetCell: "the referenced Cell or null if the
\* terminal is a bare point or the referenced cell no longer exists"; the edge
\* resolves the ID through its own model.
TerminalCell(w, e, id) ==
    IF w.cellModel[e] = NoModel \/ id = NoCell THEN NoCell
    ELSE IF id \in Range(w.collection[w.cellModel[e]]) THEN id
    ELSE NoCell

getSourceCell(w, e) == TerminalCell(w, e, getSourceCellId(w, e))
getTargetCell(w, e) == TerminalCell(w, e, getTargetCellId(w, e))

\* Edge.setSource / Edge.setTarget
setSource(w, e, terminal) == [w EXCEPT !.source[e] = terminal]
setTarget(w, e, terminal) == [w EXCEPT !.target[e] = terminal]

\* ------------------------------------------------------------------ Collection
\* (collection.ts: modelled from the specification, section 4.1)

CollectionHas(w, m, c) == c \in Range(w.collection[m])

CollectionGet(w, m, id) == IF CollectionHas(w, m, id) THEN id ELSE NoCell

CollectionLast(w, m) ==
    IF Len(w.collection[m]) = 0 THEN NoCell
    ELSE w.collection[m][Len(w.collection[m])]

Without(seq, c) == SelectSeq(seq, LAMBDA x : x /= c)

\* Insertion of c behind the last element whose zIndex is not greater: what a
\* stable sort by ascending zIndex does to a sorted list with c appended.
RECURSIVE InsertByZ(_, _, _)
InsertByZ(w, seq, c) ==
    IF seq = <<>> THEN <<c>>
    ELSE IF getZIndex(w, seq[Len(seq)]) <= getZIndex(w, c) THEN Append(seq, c)
    ELSE Append(InsertByZ(w, SubSeq(seq, 1, Len(seq) - 1), c), seq[Len(seq)])

\* Collection.sort: stable, by ascending zIndex.
RECURSIVE SortByZ(_, _)
SortByZ(w, seq) ==
    IF seq = <<>> THEN <<>>
    ELSE InsertByZ(w, SortByZ(w, SubSeq(seq, 1, Len(seq) - 1)), seq[Len(seq)])

\* A list without the later occurrences of an ID it holds twice.
RECURSIVE Dedupe(_)
Dedupe(seq) ==
    IF seq = <<>> THEN <<>>
    ELSE LET front == Dedupe(SubSeq(seq, 1, Len(seq) - 1))
         IN IF seq[Len(seq)] \in Range(front) THEN front
            ELSE Append(front, seq[Len(seq)])

Mutation(kind, m, c) == [kind |-> kind, model |-> m, cell |-> c]

\* ------------------------------------------------------------------ Model

\* A key set on / deleted from one of the membership caches (a JS object: the
\* keys keep their insertion order).
SetKey(cache, id) == IF id \in Range(cache) THEN cache ELSE Append(cache, id)
DeleteKey(cache, id) == Without(cache, id)

\* Model.onCellAdded
onCellAdded(w, m, cell) ==
    IF isEdge(cell) THEN [w EXCEPT !.edges[m] = SetKey(@, cell)]
    ELSE [w EXCEPT !.nodes[m] = SetKey(@, cell)]

\* Model.setup: the listener of the collection's 'added' event
OnAdded(w, m, cell, options) ==
    LET w1 == onCellAdded(w, m, cell)
        w2 == notify(w1, CellEvent("cell:added", m, cell, options))
    IN IF isNode(cell) THEN notify(w2, CellEvent("node:added", m, cell, options))
       ELSE IF isEdge(cell) THEN notify(w2, CellEvent("edge:added", m, cell, options))
       ELSE w2

\* Collection.add: a no-op when the ID is there; else the cell is inserted, the
\* collection is sorted and 'added' is emitted.
CollectionAdd(w, m, cell, options) ==
    IF CollectionHas(w, m, cell) THEN w
    ELSE LET w1 == [w EXCEPT !.collection[m] = SortByZ(w, Append(@, cell)),
                             !.muts = Append(@, Mutation("insert", m, cell))]
         IN OnAdded(w1, m, cell, options)

\* Model.has / Model.getCell / Model.getCells
has(w, m, obj) == CollectionHas(w, m, obj)
getCell(w, m, id) == CollectionGet(w, m, id)
getCells(w, m) == w.collection[m]

\* Model.getMaxZIndex
getMaxZIndex(w, m) ==
    LET last == CollectionLast(w, m)
    IN IF last /= NoCell THEN getZIndex(w, last) ELSE 0

\* Model.getCellsFromCache
getCellsFromCache(w, m, cache) ==
    SelectSeq(cache, LAMBDA id : getCell(w, m, id) /= NoCell)

\* Model.getNodes / Model.getEdges
getNodes(w, m) == getCellsFromCache(w, m, w.nodes[m])
getEdges(w, m) == getCellsFromCache(w, m, w.edges[m])

\* Cell.getOutgoingEdges / Cell.getIncomingEdges (cell.ts, modelled from the
\* specification): the edges of the cell's model whose terminal stores its ID.
CellOutgoingEdges(w, c) ==
    IF w.cellModel[c] = NoModel THEN <<>>
    ELSE SelectSeq(getEdges(w, w.cellModel[c]), LAMBDA e : getSourceCellId(w, e) = c)

CellIncomingEdges(w, c) ==
    IF w.cellModel[c] = NoModel THEN <<>>
    ELSE SelectSeq(getEdges(w, w.cellModel[c]), LAMBDA e : getTargetCellId(w, e) = c)

\* Model.getOutgoingEdges / Model.getIncomingEdges, called with a cell
getOutgoingEdges(w, m, cell) == CellOutgoingEdges(w, cell)
getIncomingEdges(w, m, cell) == CellIncomingEdges(w, cell)

\* An optional flag: <<>> when the caller left it out.
Unset == <<>>
Truthy(flag) == flag /= <<>> /\ flag[1]
NoDirection ==
    [incoming |-> Unset, outgoing |-> Unset, indirect |-> FALSE, deep |-> FALSE,
     enclosed |-> FALSE]

\* Cell.getDescendants({ deep: true }) (cell.ts, modelled from the
\* specification): the children, each followed by its own descendants.  The
\* containment is a forest; `depth` only bounds the evaluation.
RECURSIVE DescendantsOf(_, _)
DescendantsOf(list, depth) ==
    IF list = <<>> \/ depth = 0 THEN <<>>
    ELSE <<Head(list)>> \o DescendantsOf(children[Head(list)], depth - 1)
             \o DescendantsOf(Tail(list), depth)

getDescendants(cell) == DescendantsOf(children[cell], Cardinality(CellIds))

\* Cell.isDescendantOf (cell.ts, modelled from the specification)
isDescendantOf(cell, ancestor) == cell \in Range(getDescendants(ancestor))

\* How a query ends: it returns ("ok"), it throws a TypeError on a cell that
\* getCell does not find ("threw"), or its recursion never returns and the
\* call stack overflows ("diverged").
Ended(st, how) == [st EXCEPT !.status = how]

\* Model.getOutgoingEdges / Model.getIncomingEdges, called with an ID:
\* getCell(id).getOutgoingEdges() throws when the model has no such cell.
EdgesById(w, m, id, isOutgoing) ==
    IF getCell(w, m, id) = NoCell THEN [status |-> "threw", edges |-> <<>>]
    ELSE [status |-> "ok",
          edges |-> IF isOutgoing THEN getOutgoingEdges(w, m, id)
                    ELSE getIncomingEdges(w, m, id)]

\* getConnectedEdges, `collect`.  st is [result, cache, status]; o is the
\* direction flags and `indirect` as the closure holds them.  The cache only
\* grows, so a call of collect that finds itself on the stack with the same
\* cell, the same direction and a cache of the same size repeats its caller's
\* steps for ever: `stack` is the calls that have not returned.
RECURSIVE Collect(_, _, _, _, _, _, _)
RECURSIVE CollectEach(_, _, _, _, _, _)
CollectEach(w, m, o, st, found, stack) ==
    IF found = <<>> \/ st.status /= "ok" THEN st
    ELSE LET edge == Head(found)
         IN IF edge \in st.cache THEN CollectEach(w, m, o, st, Tail(found), stack)
            ELSE LET st1 == [st EXCEPT !.result = Append(@, edge),
                                       !.cache = @ \cup {edge}]
                     st2 == IF o.indirect /\ o.incoming
                            THEN Collect(w, m, o, st1, edge, FALSE, stack) ELSE st1
                     st3 == IF o.indirect /\ o.outgoing /\ st2.status = "ok"
                            THEN Collect(w, m, o, st2, edge, TRUE, stack) ELSE st2
                 IN CollectEach(w, m, o, st3, Tail(found), stack)

Collect(w, m, o, st, cell, isOutgoing, stack) ==
    LET call == <<cell, isOutgoing, Cardinality(st.cache)>>
    IN IF st.status /= "ok" THEN st
       ELSE IF call \in stack THEN Ended(st, "diverged")
       ELSE LET found == IF isOutgoing THEN getOutgoingEdges(w, m, cell)
                         ELSE getIncomingEdges(w, m, cell)
                st1 == CollectEach(w, m, o, st, found, stack \cup {call})
                terminal == IF isOutgoing THEN getTargetCell(w, cell)
                            ELSE getSourceCell(w, cell)
            IN IF /\ st1.status = "ok"
                  /\ o.indirect /\ isEdge(cell)
                  /\ terminal /= NoCell /\ isEdge(terminal)
                  /\ terminal \notin st1.cache
               THEN Collect(w, m, o, [st1 EXCEPT !.result = Append(@, terminal)],
                            terminal, isOutgoing, stack \cup {call})
               ELSE st1

\* getConnectedEdges, `collectSub`
RECURSIVE CollectSubEach(_, _, _, _, _)
CollectSubEach(w, options, embedsCache, st, found) ==
    IF found = <<>> THEN st
    ELSE LET edge == Head(found)
             sourceCell == getSourceCell(w, edge)
             targetCell == getTargetCell(w, edge)
             st1 == IF edge \in st.cache THEN st
                    ELSE IF /\ ~options.enclosed
                            /\ sourceCell /= NoCell /\ sourceCell \in embedsCache
                            /\ targetCell /= NoCell /\ targetCell \in embedsCache
                    THEN st
                    ELSE [st EXCEPT !.result = Append(@, edge), !.cache = @ \cup {edge}]
         IN CollectSubEach(w, options, embedsCache, st1, Tail(found))

CollectSub(w, m, options, embedsCache, st, cell, isOutgoing) ==
    LET found == EdgesById(w, m, cell, isOutgoing)
    IN IF st.status /= "ok" THEN st
       ELSE IF found.status /= "ok" THEN Ended(st, found.status)
       ELSE CollectSubEach(w, options, embedsCache, st, found.edges)

\* getConnectedEdges, `descendants.forEach` of the deep part
RECURSIVE CollectDescendants(_, _, _, _, _, _, _)
CollectDescendants(w, m, options, o, embedsCache, st, descendants) ==
    IF descendants = <<>> \/ st.status /= "ok" THEN st
    ELSE LET cell == Head(descendants)
             st1 == IF isEdge(cell) \/ ~o.outgoing THEN st
                    ELSE CollectSub(w, m, options, embedsCache, st, cell, TRUE)
             st2 == IF isEdge(cell) \/ ~o.incoming THEN st1
                    ELSE CollectSub(w, m, options, embedsCache, st1, cell, FALSE)
         IN CollectDescendants(w, m, options, o, embedsCache, st2, Tail(descendants))

\* Model.getConnectedEdges, called with a cell: how it ends, and the list.
ConnectedEdges(w, m, cell, options) ==
    LET both == options.incoming = Unset /\ options.outgoing = Unset
        o == [incoming |-> both \/ Truthy(options.incoming),
              outgoing |-> both \/ Truthy(options.outgoing),
              indirect |-> options.indirect]
        st0 == [result |-> <<>>, cache |-> {}, status |-> "ok"]
        st1 == IF o.outgoing THEN Collect(w, m, o, st0, cell, TRUE, {}) ELSE st0
        st2 == IF o.incoming THEN Collect(w, m, o, st1, cell, FALSE, {}) ELSE st1
        descendants == getDescendants(cell)
        embedsCache == {d \in Range(descendants) : isNode(d)}
    IN IF cell = NoCell THEN st0
       ELSE IF options.deep
       THEN CollectDescendants(w, m, options, o, embedsCache, st2, descendants)
       ELSE st2

\* The list getConnectedEdges returns
getConnectedEdges(w, m, cell, options) == ConnectedEdges(w, m, cell, options).result

RECURSIVE removeCell(_, _, _, _)

\* Cell.remove (cell.ts, modelled from the specification): the cell leaves the
\* model its back-reference names.
CellRemove(w, cell, options) ==
    IF w.cellModel[cell] = NoModel THEN w
    ELSE removeCell(w, w.cellModel[cell], cell, options)

\* removeEdges: forEach((edge) => edge.remove(options))
RECURSIVE RemoveEach(_, _, _)
RemoveEach(w, list, options) ==
    IF list = <<>> THEN w
    ELSE RemoveEach(CellRemove(w, Head(list), options), Tail(list), options)

\* removeEdges gone wrong: only the outgoing edges are removed.
removeEdgesOutgoing(w, m, cell, options) ==
    RemoveEach(w, getConnectedEdges(w, m, cell,
                                    [NoDirection EXCEPT !.outgoing = <<TRUE>>]),
               options)

\* Model.removeEdges
removeEdges(w, m, cell, options) ==
    RemoveEach(w, getConnectedEdges(w, m, cell, NoDirection), options)

\* disconnectEdges: the body of its forEach
DisconnectOne(w, edge, cellId) ==
    LET sourceCell == getSourceCell(w, edge)
        targetCell == getTargetCell(w, edge)
        w1 == IF sourceCell /= NoCell /\ sourceCell = cellId
              THEN setSource(w, edge, PointTerminal(0, 0)) ELSE w
    IN IF targetCell /= NoCell /\ targetCell = cellId
       THEN setTarget(w1, edge, PointTerminal(0, 0)) ELSE w1

RECURSIVE DisconnectEach(_, _, _)
DisconnectEach(w, list, cellId) ==
    IF list = <<>> THEN w
    ELSE DisconnectEach(DisconnectOne(w, Head(list), cellId), Tail(list), cellId)

\* Model.disconnectEdges
disconnectEdges(w, m, cell, options) ==
    DisconnectEach(w, getConnectedEdges(w, m, cell, NoDirection), cell)

\* afterCellRemoved, its end: if (cell.model === this) { cell.model = null }
ClearBackReference(w, m, cell) ==
    IF w.cellModel[cell] = m THEN [w EXCEPT !.cellModel[cell] = NoModel]
    ELSE w

\* getConnectedEdges, removeEdges and disconnectEdges called with a string:
\* the ID is resolved with getCell, and a cell that is not found gives [].
getConnectedEdgesById(w, m, id, options) ==
    ConnectedEdges(w, m, getCell(w, m, id), options)

removeEdgesById(w, m, id, options) ==
    RemoveEach(w, getConnectedEdgesById(w, m, id, NoDirection).result, options)

disconnectEdgesById(w, m, id, options) ==
    DisconnectEach(w, getConnectedEdgesById(w, m, id, NoDirection).result, id)

\* Model.afterCellRemoved
afterCellRemoved(w, m, cell, options) ==
    ClearBackReference(IF ~options.clear
                       THEN IF options.disconnectEdges
                            THEN disconnectEdges(w, m, cell, options)
                            ELSE removeEdges(w, m, cell, options)
                       ELSE w,
                       m, cell)

\* Model.onCellRemoved
onCellRemoved(w, m, cell, options) ==
    LET w1 == IF isEdge(cell) THEN [w EXCEPT !.edges[m] = DeleteKey(@, cell)]
              ELSE [w EXCEPT !.nodes[m] = DeleteKey(@, cell)]
    IN afterCellRemoved(w1, m, cell, options)

\* Model.setup: the listener of the collection's 'removed' event
NotifyRemoved(w, m, cell, options) ==
    IF isNode(cell) THEN notify(w, CellEvent("node:removed", m, cell, options))
    ELSE IF isEdge(cell) THEN notify(w, CellEvent("edge:removed", m, cell, options))
    ELSE w

OnRemoved(w, m, cell, options) ==
    NotifyRemoved(notify(onCellRemoved(w, m, cell, options),
                         CellEvent("cell:removed", m, cell, options)),
                  m, cell, options)

\* Collection.remove: the cell is deleted by identity, then 'removed' is emitted
\* with the cell and the options.
CollectionRemove(w, m, cell, options) ==
    IF ~CollectionHas(w, m, cell) THEN w
    ELSE LET w1 == [w EXCEPT !.collection[m] = Without(@, cell),
                             !.muts = Append(@, Mutation("remove", m, cell))]
         IN OnRemoved(w1, m, cell, options)

\* removeCell gone wrong: no test of the membership before the removal is
\* announced.
removeCellUnchecked(w, m, obj, options) ==
    IF obj /= NoCell THEN OnRemoved(w, m, obj, options) ELSE w

\* Model.removeCell
removeCell(w, m, obj, options) ==
    LET cell == obj
    IN IF cell /= NoCell /\ has(w, m, cell) THEN CollectionRemove(w, m, cell, options)
       ELSE w

\* Model.prepareCell
prepareCell(w, m, cell, options) ==
    LET w1 == IF w.cellModel[cell] = NoModel /\ ~options.dry
              THEN [w EXCEPT !.cellModel[cell] = m] ELSE w
    IN IF w1.zIndex[cell] = <<>>
       THEN [w1 EXCEPT !.zIndex[cell] = <<getMaxZIndex(w1, m) + 1>>]
       ELSE w1

\* Model.addCell, for a single cell; AddChildren is its eachChild loop.
RECURSIVE addCell(_, _, _, _)
RECURSIVE AddChildren(_, _, _, _)
AddChildren(w, m, list, options) ==
    IF list = <<>> THEN w
    ELSE AddChildren(addCell(w, m, Head(list), options), m, Tail(list), options)

\* addCell gone wrong: the children are not added.
addCellNoChildren(w, m, cell, options) ==
    IF ~CollectionHas(w, m, cell) /\ cell \notin w.addings[m]
    THEN LET w1 == [w EXCEPT !.addings[m] = @ \cup {cell}]
             w2 == CollectionAdd(prepareCell(w1, m, cell, options), m, cell, options)
         IN [w2 EXCEPT !.addings[m] = @ \ {cell}]
    ELSE w

\* addCell gone wrong: no test of the membership, and the zIndex is assigned
\* on every call.
addCellRestamp(w, m, cell, options) ==
    IF cell \notin w.addings[m]
    THEN LET w1 == [w EXCEPT !.addings[m] = @ \cup {cell},
                             !.zIndex[cell] = <<getMaxZIndex(w, m) + 1>>]
             w2 == CollectionAdd(prepareCell(w1, m, cell, options), m, cell, options)
             w3 == AddChildren(w2, m, children[cell], options)
         IN [w3 EXCEPT !.addings[m] = @ \ {cell}]
    ELSE w

addCell(w, m, cell, options) ==
    IF ~CollectionHas(w, m, cell) /\ cell \notin w.addings[m]
    THEN LET w1 == [w EXCEPT !.addings[m] = @ \cup {cell}]
             w2 == CollectionAdd(prepareCell(w1, m, cell, options), m, cell, options)
             w3 == AddChildren(w2, m, children[cell], options)
         IN [w3 EXCEPT !.addings[m] = @ \ {cell}]
    ELSE w

\* startBatch gone wrong: the name is flagged active, not counted.
startBatchFlag(w, m, name) ==
    notify([w EXCEPT !.batches[m][name] = 1], BatchEvent("batch:start", m, name))

\* Model.startBatch / Model.stopBatch.  A name that was never set counts 0:
\* (this.batches[name] || 0).
startBatch(w, m, name) ==
    notify([w EXCEPT !.batches[m][name] = @ + 1], BatchEvent("batch:start", m, name))

stopBatch(w, m, name) ==
    notify([w EXCEPT !.batches[m][name] = @ - 1], BatchEvent("batch:stop", m, name))

\* A function a caller hands to executeBatch, called: it adds a cell,
\* removes one, or asks for the outgoing edges of one by its ID.
RunCallback(w, m, cb) ==
    IF cb.kind = "add" THEN addCell(w, m, cb.cell, DefaultOptions)
    ELSE IF cb.kind = "remove" THEN removeCell(w, m, cb.cell, DefaultOptions)
    ELSE w

\* The function throws: getOutgoingEdges(id) for an ID the model does not
\* hold.
Raises(w, m, cb) ==
    cb.kind = "outgoing" /\ EdgesById(w, m, cb.cell, TRUE).status = "threw"

\* Model.executeBatch: an exception of execute() leaves the method before
\* stopBatch.
executeBatch(w, m, name, execute) ==
    IF Raises(w, m, execute) THEN startBatch(w, m, name)
    ELSE stopBatch(RunCallback(startBatch(w, m, name), m, execute), m, name)

\* Model.hasActiveBatch, for a name or a list of names; without argument the
\* names are the keys of this.batches.
hasActiveBatch(w, m, names) == \E batch \in names : w.batches[m][batch] > 0
hasActiveBatchOfAll(w, m) == hasActiveBatch(w, m, DOMAIN w.batches[m])

\* Model.addCells; AddEach is its forEach loop.
RECURSIVE AddEach(_, _, _, _)
AddEach(w, m, list, options) ==
    IF list = <<>> THEN w
    ELSE AddEach(addCell(w, m, Head(list), options), m, Tail(list), options)

addCells(w, m, cells, options) ==
    IF Len(cells) = 0 THEN w
    ELSE stopBatch(AddEach(startBatch(w, m, "add"), m, cells, options), m, "add")

\* Model.removeCells; RemoveCellEach is its forEach loop, run by executeBatch.
RECURSIVE RemoveCellEach(_, _, _, _)
RemoveCellEach(w, m, list, options) ==
    IF list = <<>> THEN w
    ELSE RemoveCellEach(removeCell(w, m, Head(list), options), m, Tail(list), options)

removeCells(w, m, cells, options) ==
    IF Len(cells) /= 0
    THEN stopBatch(RemoveCellEach(startBatch(w, m, "remove"), m, cells, options),
                   m, "remove")
    ELSE w

\* Model.onReset
RECURSIVE OnCellAddedEach(_, _, _)
OnCellAddedEach(w, m, list) ==
    IF list = <<>> THEN w
    ELSE OnCellAddedEach(onCellAdded(w, m, Head(list)), m, Tail(list))

onReset(w, m, cells) ==
    OnCellAddedEach([w EXCEPT !.nodes[m] = <<>>, !.edges[m] = <<>>], m, cells)

\* Model.setup: the listener of the collection's 'reseted' event
OnReseted(w, m, current) ==
    notify(onReset(w, m, current), BatchEvent("reseted", m, ""))

\* Collection.reset: the contents are replaced at once and one 'reseted' event
\* is emitted.
CollectionReset(w, m, cells) ==
    LET previous == w.collection[m]
        current == SortByZ(w, Dedupe(cells))
        w1 == [w EXCEPT !.collection[m] = current,
                        !.muts = @ \o [i \in 1..Len(previous) |->
                                           Mutation("remove", m, previous[i])]
                                   \o [i \in 1..Len(current) |->
                                           Mutation("insert", m, current[i])]]
    IN OnReseted(w1, m, current)

\* Model.resetCells; PrepareEach is cells.map(prepareCell).
RECURSIVE PrepareEach(_, _, _, _)
PrepareEach(w, m, list, options) ==
    IF list = <<>> THEN w
    ELSE PrepareEach(prepareCell(w, m, Head(list), options), m, Tail(list), options)

resetCells(w, m, cells, options) ==
    CollectionReset(PrepareEach(w, m, cells, options), m, cells)

Reverse(seq) == [i \in 1..Len(seq) |-> seq[Len(seq) + 1 - i]]

\* clear: raw.sort((cell) => (cell.isEdge() ? 1 : 2)).  The comparator reads one
\* argument and is positive for every pair, so it is no consistent comparator
\* and the order is the engine's: a merge of runs keeps the list as it is, an
\* insertion sort reverses it.
SortOrders == {"kept", "reversed"}
SortedForClear(raw, order) == IF order = "kept" THEN raw ELSE Reverse(raw)

\* clear: while (cells.length > 0) { cells.shift().remove(localOptions) }
RECURSIVE ClearEach(_, _, _)
ClearEach(w, list, options) ==
    IF list = <<>> THEN w
    ELSE ClearEach(CellRemove(w, Head(list), options), Tail(list), options)

\* clear gone wrong: the removals get the caller's options, without the flag.
clearUnflagged(w, m, options, order) ==
    LET raw == getCells(w, m)
    IN IF Len(raw) = 0 THEN w
       ELSE stopBatch(ClearEach(startBatch(w, m, "clear"),
                                SortedForClear(raw, order), options),
                      m, "clear")

\* Model.clear
clear(w, m, options, order) ==
    LET raw == getCells(w, m)
        localOptions == [options EXCEPT !.clear = TRUE]
    IN IF Len(raw) = 0 THEN w
       ELSE stopBatch(ClearEach(startBatch(w, m, "clear"),
                                SortedForClear(raw, order), localOptions),
                      m, "clear")

\* ------------------------------------------------------------------ queries

\* Edge.hasLoop (edge.ts, modelled from the specification): "an edge whose
\* source and target are the same node".
hasLoop(w, edge) ==
    /\ getSourceCellId(w, edge) /= NoCell
    /\ getSourceCellId(w, edge) = getTargetCellId(w, edge)

\* The body of the reduce without the test of hasLoop: the cell itself is
\* never a neighbor.
NeighborsOfEdgeNoLoop(w, cell, options, o, memo, edge) ==
    LET sourceCell == getSourceCell(w, edge)
        targetCell == getTargetCell(w, edge)
        memo1 == IF /\ o.incoming
                    /\ sourceCell /= NoCell /\ isNode(sourceCell)
                    /\ sourceCell \notin Range(memo)
                    /\ sourceCell /= cell
                 THEN Append(memo, sourceCell) ELSE memo
    IN IF /\ o.outgoing
          /\ targetCell /= NoCell /\ isNode(targetCell)
          /\ targetCell \notin Range(memo1)
          /\ targetCell /= cell
       THEN Append(memo1, targetCell) ELSE memo1

\* getNeighbors: the body of its reduce.  memo is the keys of the map, in
\* the order of their insertion.
NeighborsOfEdge(w, cell, options, o, memo, edge) ==
    LET sourceCell == getSourceCell(w, edge)
        targetCell == getTargetCell(w, edge)
        memo1 == IF /\ o.incoming
                    /\ sourceCell /= NoCell /\ isNode(sourceCell)
                    /\ sourceCell \notin Range(memo)
                    /\ \/ hasLoop(w, edge)
                       \/ /\ sourceCell /= cell
                          /\ ~options.deep \/ ~isDescendantOf(sourceCell, cell)
                 THEN Append(memo, sourceCell) ELSE memo
    IN IF /\ o.outgoing
          /\ targetCell /= NoCell /\ isNode(targetCell)
          /\ targetCell \notin Range(memo1)
          /\ \/ hasLoop(w, edge)
             \/ /\ targetCell /= cell
                /\ ~options.deep \/ ~isDescendantOf(targetCell, cell)
       THEN Append(memo1, targetCell) ELSE memo1

RECURSIVE NeighborsReduce(_, _, _, _, _, _)
NeighborsReduce(w, cell, options, o, memo, list) ==
    IF list = <<>> THEN memo
    ELSE NeighborsReduce(w, cell, options, o,
                         NeighborsOfEdge(w, cell, options, o, memo, Head(list)),
                         Tail(list))

\* Model.getNeighbors: how it ends, and the list.
Neighbors(w, m, cell, options) ==
    LET both == options.incoming = Unset /\ options.outgoing = Unset
        o == [incoming |-> both \/ Truthy(options.incoming),
              outgoing |-> both \/ Truthy(options.outgoing)]
        found == ConnectedEdges(w, m, cell, options)
        map == NeighborsReduce(w, cell, options, o, <<>>, found.result)
        sourceCell == getSourceCell(w, cell)
        targetCell == getTargetCell(w, cell)
        map1 == IF /\ isEdge(cell) /\ o.incoming
                   /\ sourceCell /= NoCell /\ isNode(sourceCell)
                   /\ sourceCell \notin Range(map)
                THEN Append(map, sourceCell) ELSE map
        map2 == IF /\ isEdge(cell) /\ o.outgoing
                   /\ targetCell /= NoCell /\ isNode(targetCell)
                   /\ targetCell \notin Range(map1)
                THEN Append(map1, targetCell) ELSE map1
    IN IF found.status /= "ok" THEN [status |-> found.status, result |-> <<>>]
       ELSE [status |-> "ok", result |-> IF isEdge(cell) THEN map2 ELSE map]

getNeighbors(w, m, cell, options) == Neighbors(w, m, cell, options).result

\* Model.isNeighbor: some connected edge of cell1 has cell2 as its source
\* (under `incoming`) or as its target (under `outgoing`).
isNeighbor(w, m, cell1, cell2, options) ==
    LET both == options.incoming = Unset /\ options.outgoing = Unset
        incoming == both \/ Truthy(options.incoming)
        outgoing == both \/ Truthy(options.outgoing)
        found == getConnectedEdges(w, m, cell1, options)
    IN \E i \in 1..Len(found) :
           LET sourceCell == getSourceCell(w, found[i])
               targetCell == getTargetCell(w, found[i])
           IN \/ incoming /\ sourceCell /= NoCell /\ sourceCell = cell2
              \/ outgoing /\ targetCell /= NoCell /\ targetCell = cell2

\* search: distance[neighbor.id] = distance[next.id] + 1 for every neighbor
RECURSIVE SetDistances(_, _, _)
SetDistances(distance, neighbors, d) ==
    IF neighbors = <<>> THEN distance
    ELSE SetDistances((Head(neighbors) :> d) @@ distance, Tail(neighbors), d)

\* The while loop without `continue` after an iterator that returned false.
RECURSIVE SearchLoopUnpruned(_, _, _, _, _, _)
SearchLoopUnpruned(w, m, options, pruned, breadthFirst, st) ==
    IF st.queue = <<>> \/ st.status /= "ok" THEN st
    ELSE LET next == IF breadthFirst THEN Head(st.queue)
                     ELSE st.queue[Len(st.queue)]
             rest == IF breadthFirst THEN Tail(st.queue)
                     ELSE SubSeq(st.queue, 1, Len(st.queue) - 1)
             found == Neighbors(w, m, next, options)
             st2 == [st EXCEPT
                        !.visited = @ \cup {next},
                        !.visits = Append(@, <<next, st.distance[next]>>),
                        !.distance = SetDistances(@, found.result,
                                                  st.distance[next] + 1),
                        !.queue = IF breadthFirst THEN rest \o found.result
                                  ELSE rest \o Reverse(found.result)]
         IN IF next \in st.visited
            THEN SearchLoopUnpruned(w, m, options, pruned, breadthFirst,
                                    [st EXCEPT !.queue = rest])
            ELSE IF found.status /= "ok" THEN Ended(st, found.status)
            ELSE SearchLoopUnpruned(w, m, options, pruned, breadthFirst, st2)

\* breadthFirstSearch and depthFirstSearch: the while loop.  The iterator
\* returns false for the cells of `pruned`; `visits` is its calls, <<cell,
\* distance>>, in order.  breadthFirst takes the head of the queue and pushes
\* the neighbors behind it; depth-first takes the last and splices every
\* neighbor in at the length the queue had, so the last neighbor comes first.
RECURSIVE SearchLoop(_, _, _, _, _, _)
SearchLoop(w, m, options, pruned, breadthFirst, st) ==
    IF st.queue = <<>> \/ st.status /= "ok" THEN st
    ELSE LET next == IF breadthFirst THEN Head(st.queue)
                     ELSE st.queue[Len(st.queue)]
             rest == IF breadthFirst THEN Tail(st.queue)
                     ELSE SubSeq(st.queue, 1, Len(st.queue) - 1)
             st1 == [st EXCEPT !.queue = rest,
                               !.visited = @ \cup {next},
                               !.visits = Append(@, <<next, st.distance[next]>>)]
             found == Neighbors(w, m, next, options)
             st2 == [st1 EXCEPT
                        !.distance = SetDistances(@, found.result,
                                                  st.distance[next] + 1),
                        !.queue = IF breadthFirst THEN @ \o found.result
                                  ELSE @ \o Reverse(found.result)]
         IN IF next \in st.visited
            THEN SearchLoop(w, m, options, pruned, breadthFirst,
                            [st EXCEPT !.queue = rest])
            ELSE IF next \in pruned
            THEN SearchLoop(w, m, options, pruned, breadthFirst, st1)
            ELSE IF found.status /= "ok" THEN Ended(st1, found.status)
            ELSE SearchLoop(w, m, options, pruned, breadthFirst, st2)

\* Model.search: breadthFirstSearch if options.breadthFirst, else
\* depthFirstSearch.
search(w, m, cell, pruned, options, breadthFirst) ==
    SearchLoop(w, m, options, pruned, breadthFirst,
               [queue |-> <<cell>>, visited |-> {}, distance |-> (cell :> 0),
                visits |-> <<>>, status |-> "ok"])

breadthFirstSearch(w, m, cell, pruned, options) ==
    search(w, m, cell, pruned, options, TRUE)

depthFirstSearch(w, m, cell, pruned, options) ==
    search(w, m, cell, pruned, options, FALSE)

\* The iterator of getSuccessors and getPredecessors: the cells it is called
\* with, the start cell left out.
Others(visits, cell) ==
    LET found == SelectSeq(visits, LAMBDA v : v[1] /= cell)
    IN [i \in 1..Len(found) |-> found[i][1]]

\* Model.getSuccessors / Model.getPredecessors, with no options: a
\* depth-first search with { outgoing: true } / { incoming: true }.
getSuccessors(w, m, cell) ==
    Others(search(w, m, cell, {}, [NoDirection EXCEPT !.outgoing = <<TRUE>>],
                  FALSE).visits, cell)

getPredecessors(w, m, cell) ==
    Others(search(w, m, cell, {}, [NoDirection EXCEPT !.incoming = <<TRUE>>],
                  FALSE).visits, cell)

\* The search of isSuccessor and isPredecessor: the iterator returns false
\* for cell2, unless cell2 is cell1, and nowhere else.
SearchFor(w, m, cell1, cell2, options) ==
    search(w, m, cell1, {cell2} \ {cell1}, options, FALSE)

\* `result`: set when the iterator is called with cell2, cell2 not cell1.
Found(visits, cell1, cell2) ==
    cell2 /= cell1 /\ \E i \in 1..Len(visits) : visits[i][1] = cell2

\* isSuccessor gone wrong: the search follows the edges in both directions.
isSuccessorEitherWay(w, m, cell1, cell2) ==
    Found(SearchFor(w, m, cell1, cell2, NoDirection).visits, cell1, cell2)

\* Model.isSuccessor / Model.isPredecessor
isSuccessor(w, m, cell1, cell2) ==
    Found(SearchFor(w, m, cell1, cell2,
                    [NoDirection EXCEPT !.outgoing = <<TRUE>>]).visits,
          cell1, cell2)

isPredecessor(w, m, cell1, cell2) ==
    Found(SearchFor(w, m, cell1, cell2,
                    [NoDirection EXCEPT !.incoming = <<TRUE>>]).visits,
          cell1, cell2)

\* getSubGraph, `collect`.  sg is [subgraph, cache, nodes, edges, status].
SubGraphCollect(sg, cell) ==
    IF cell \in sg.cache THEN sg
    ELSE [sg EXCEPT !.subgraph = Append(@, cell),
                    !.cache = @ \cup {cell},
                    !.edges = IF isEdge(cell) THEN Append(@, cell) ELSE @,
                    !.nodes = IF isNode(cell) THEN Append(@, cell) ELSE @]

RECURSIVE SubGraphCollectEach(_, _)
SubGraphCollectEach(sg, list) ==
    IF list = <<>> THEN sg
    ELSE SubGraphCollectEach(SubGraphCollect(sg, Head(list)), Tail(list))

\* getSubGraph: cells.forEach, the cells given and with `deep` their
\* descendants
RECURSIVE SubGraphCells(_, _, _)
SubGraphCells(sg, cells, options) ==
    IF cells = <<>> THEN sg
    ELSE LET sg1 == SubGraphCollect(sg, Head(cells))
             sg2 == IF options.deep
                    THEN SubGraphCollectEach(sg1, getDescendants(Head(cells)))
                    ELSE sg1
         IN SubGraphCells(sg2, Tail(cells), options)

\* getSubGraph: a terminal of an edge is pushed
SubGraphTerminal(sg, terminal) ==
    IF terminal /= NoCell /\ terminal \notin sg.cache
    THEN [sg EXCEPT !.subgraph = Append(@, terminal),
                    !.cache = @ \cup {terminal},
                    !.nodes = IF isNode(terminal) THEN Append(@, terminal) ELSE @]
    ELSE sg

\* getSubGraph: edges.forEach, over the edges of the first pass
RECURSIVE SubGraphEdges(_, _, _)
SubGraphEdges(w, sg, list) ==
    IF list = <<>> THEN sg
    ELSE LET sg1 == SubGraphTerminal(sg, getSourceCell(w, Head(list)))
             sg2 == SubGraphTerminal(sg1, getTargetCell(w, Head(list)))
         IN SubGraphEdges(w, sg2, Tail(list))

\* getSubGraph gone wrong: a connected edge is pushed when one of its
\* terminals is there.
RECURSIVE SubGraphConnectedEither(_, _, _)
SubGraphConnectedEither(w, sg, list) ==
    IF list = <<>> THEN sg
    ELSE LET edge == Head(list)
             sourceCell == getSourceCell(w, edge)
             targetCell == getTargetCell(w, edge)
             sg1 == IF /\ edge \notin sg.cache
                       /\ \/ sourceCell /= NoCell /\ sourceCell \in sg.cache
                          \/ targetCell /= NoCell /\ targetCell \in sg.cache
                    THEN [sg EXCEPT !.subgraph = Append(@, edge),
                                    !.cache = @ \cup {edge}]
                    ELSE sg
         IN SubGraphConnectedEither(w, sg1, Tail(list))

\* getSubGraph: the connected edges of a node whose terminals are both there
RECURSIVE SubGraphConnected(_, _, _)
SubGraphConnected(w, sg, list) ==
    IF list = <<>> THEN sg
    ELSE LET edge == Head(list)
             sourceCell == getSourceCell(w, edge)
             targetCell == getTargetCell(w, edge)
             sg1 == IF /\ edge \notin sg.cache
                       /\ sourceCell /= NoCell /\ sourceCell \in sg.cache
                       /\ targetCell /= NoCell /\ targetCell \in sg.cache
                    THEN [sg EXCEPT !.subgraph = Append(@, edge),
                                    !.cache = @ \cup {edge}]
                    ELSE sg
         IN SubGraphConnected(w, sg1, Tail(list))

\* getSubGraph: nodes.forEach
RECURSIVE SubGraphNodes(_, _, _, _, _)
SubGraphNodes(w, m, options, sg, list) ==
    IF list = <<>> \/ sg.status /= "ok" THEN sg
    ELSE LET found == ConnectedEdges(w, m, Head(list),
                                     [NoDirection EXCEPT !.deep = options.deep])
         IN IF found.status /= "ok" THEN Ended(sg, found.status)
            ELSE SubGraphNodes(w, m, options,
                               SubGraphConnected(w, sg, found.result), Tail(list))

\* Model.getSubGraph: how it ends, and the list `subgraph`.
getSubGraph(w, m, cells, options) ==
    LET sg0 == [subgraph |-> <<>>, cache |-> {}, nodes |-> <<>>, edges |-> <<>>,
                status |-> "ok"]
        sg1 == SubGraphCells(sg0, cells, options)
        sg2 == SubGraphEdges(w, sg1, sg1.edges)
    IN SubGraphNodes(w, m, options, sg2, sg2.nodes)

\* getShortestPath: the adjacency list.  A JS object: `keys` is its keys in
\* the order of their insertion, `arcs` the list of each key.
AddArc(adj, from, to) ==
    [adj EXCEPT !.arcs = [@ EXCEPT ![from] = Append(@, to)]]

AddKey(adj, id) ==
    IF id \in Range(adj.keys) THEN adj ELSE [adj EXCEPT !.keys = Append(@, id)]

RECURSIVE AdjacencyOf(_, _, _, _)
AdjacencyOf(w, adj, list, directed) ==
    IF list = <<>> THEN adj
    ELSE LET sourceId == getSourceCellId(w, Head(list))
             targetId == getTargetCellId(w, Head(list))
             adj1 == AddArc(AddKey(AddKey(adj, sourceId), targetId), sourceId, targetId)
             adj2 == IF ~directed THEN AddArc(adj1, targetId, sourceId) ELSE adj1
         IN IF sourceId /= NoCell /\ targetId /= NoCell
            THEN AdjacencyOf(w, adj2, Tail(list), directed)
            ELSE AdjacencyOf(w, adj, Tail(list), directed)

adjacencyList(w, m, directed) ==
    AdjacencyOf(w, [keys |-> <<>>, arcs |-> [id \in CellIds |-> <<>>]],
                getEdges(w, m), directed)

\* Dijkstra.run with the default weight 1 (common/dijkstra, modelled from the
\* specification: "a Dijkstra shortest-path relaxation from source with a
\* default unit weight").  Level(adj, from, n) is the IDs at distance n.
\* The predecessor of an ID is one of the IDs one step nearer that have an arc
\* to it; which one is the priority queue's choice, so a run is any of them.
\* The ID the run starts from has no predecessor.
RECURSIVE Within(_, _, _)
Within(adj, from, n) ==
    IF n = 0 THEN {from}
    ELSE LET near == Within(adj, from, n - 1)
         IN near \cup UNION {Range(adj.arcs[u]) : u \in near \cap Range(adj.keys)}

Level(adj, from, n) ==
    IF n = 0 THEN {from} ELSE Within(adj, from, n) \ Within(adj, from, n - 1)

Reached(adj, from) == Within(adj, from, Cardinality(CellIds)) \ {from}

DistanceOf(adj, from, v) ==
    CHOOSE n \in 0..Cardinality(CellIds) : v \in Level(adj, from, n)

DijkstraRuns(adj, from) ==
    {previous \in [Reached(adj, from) -> CellIds] :
        \A v \in Reached(adj, from) :
            /\ previous[v] \in Level(adj, from, DistanceOf(adj, from, v) - 1)
            /\ v \in Range(adj.arcs[previous[v]])}

\* getShortestPath: while ((targetId = previous[targetId])) path.unshift(targetId)
RECURSIVE WalkBack(_, _, _)
WalkBack(previous, targetId, path) ==
    IF targetId \in DOMAIN previous
    THEN WalkBack(previous, previous[targetId], <<previous[targetId]>> \o path)
    ELSE path

\* getShortestPath: the path read from the predecessors
PathTo(previous, targetId) ==
    WalkBack(previous, targetId,
             IF targetId \in DOMAIN previous THEN <<targetId>> ELSE <<>>)

\* getShortestPath gone wrong: the reverse arcs are added for `directed` too.
getShortestPathUndirected(w, m, sourceId, targetId, directed) ==
    {PathTo(previous, targetId) :
        previous \in DijkstraRuns(adjacencyList(w, m, FALSE), sourceId)}

\* Model.getShortestPath, called with IDs and the default weight: the list it
\* returns, for each run of Dijkstra.run.
getShortestPath(w, m, sourceId, targetId, directed) ==
    {PathTo(previous, targetId) :
        previous \in DijkstraRuns(adjacencyList(w, m, directed), sourceId)}

\* ------------------------------------------------------------------ states

\* The cells as they are constructed: the terminals of the edges and the
\* children of the cells.  A terminal the tables do not give is a fixed
\* point; a terminal may name a cell that no call is made with.
Shape(src, tgt, kids) == [source |-> src, target |-> tgt, children |-> kids]

NoKids == [c \in {} |-> <<>>]

Shapes ==
    { \* a self-loop and a second edge at the same node: A -E-> A, A -F-> B
      Shape("E" :> "A" @@ "F" :> "A", "E" :> "A" @@ "F" :> "B", NoKids),
      \* an edge attached to an edge: A -E-> (point), (point) -F-> E;
      \* A embeds E and F
      Shape("E" :> "A", "F" :> "E", "A" :> <<"E", "F">>),
      \* two edges attached to each other: F -E-> A, E -F-> (point);
      \* A and E embed each other
      Shape("E" :> "F" @@ "F" :> "E", "E" :> "A",
            "A" :> <<"E">> @@ "E" :> <<"A">>),
      \* two nodes joined both ways: A -E-> B, B -F-> A; B embeds F
      Shape("E" :> "A" @@ "F" :> "B", "E" :> "B" @@ "F" :> "A",
            "B" :> <<"F">>) }

TerminalOf(table, e) ==
    IF e \in DOMAIN table THEN CellTerminal(table[e]) ELSE PointTerminal(1, 1)

ChildrenOf(table, c) ==
    IF c \in DOMAIN table THEN table[c] ELSE <<>>

InitCells(shape) ==
    /\ source = [e \in EdgeIds |-> TerminalOf(shape.source, e)]
    /\ target = [e \in EdgeIds |-> TerminalOf(shape.target, e)]
    /\ children = [c \in CellIds |-> ChildrenOf(shape.children, c)]
    /\ zIndex = [c \in CellIds |-> <<>>]
    /\ cellModel = [c \in CellIds |-> NoModel]

\* new Collection(cells): the collection holds the cells it is given.
CollectionNew(cells) == Dedupe(cells)

\* Model.constructor: the collection is built from the cells, then setup()
\* registers the listeners.  M1 is given the list; M2 is constructed empty.
Constructed(cells) ==
    /\ collection = [m \in Models |-> IF m = "M1" THEN CollectionNew(cells) ELSE <<>>]
    /\ nodes = [m \in Models |-> <<>>]
    /\ edges = [m \in Models |-> <<>>]
    /\ batches = [m \in Models |-> [b \in BatchNames |-> 0]]
    /\ addings = [m \in Models |-> {}]
    /\ starts = [b \in BatchNames |-> 0]
    /\ stops = [b \in BatchNames |-> 0]

\* The models constructed with the default argument, an empty list
Init ==
    /\ \E shape \in Shapes : InitCells(shape)
    /\ Constructed(<<>>)

\* The effects of a call become the state.
Effects(w) ==
    /\ collection' = w.collection
    /\ nodes' = w.nodes
    /\ edges' = w.edges
    /\ batches' = w.batches
    /\ addings' = w.addings
    /\ cellModel' = w.cellModel
    /\ zIndex' = w.zIndex
    /\ source' = w.source
    /\ target' = w.target
    /\ UNCHANGED children

\* The call is over: its effects become the state.
Commit(w) ==
    /\ Effects(w)
    /\ UNCHANGED <<starts, stops>>

\* The lists a caller passes: the lists of distinct cells up to MaxListLen long.
CellLists ==
    UNION {{s \in [1..n -> Cells] : \A i, j \in 1..n : i /= j => s[i] /= s[j]} :
           n \in 0..MaxListLen}

RemoveOptions == {DefaultOptions, DisconnectOptions, ClearOptions}

\* M1 constructed with a list of cells
InitCtor ==
    /\ \E shape \in Shapes : InitCells(shape)
    /\ \E cells \in CellLists : Constructed(cells)

\* ------------------------------------------------------------------ actions

AddCell(m) ==
    \E cell \in Cells :
        Commit(addCell(World, m, cell, DefaultOptions))

AddCells(m) ==
    \E cells \in CellLists :
        Commit(addCells(World, m, cells, DefaultOptions))

RemoveCell(m) ==
    \E cell \in Cells, options \in RemoveOptions :
        Commit(removeCell(World, m, cell, options))

RemoveCells(m) ==
    \E cells \in CellLists :
        Commit(removeCells(World, m, cells, DefaultOptions))

ResetCells(m) ==
    \E cells \in CellLists :
        Commit(resetCells(World, m, cells, DefaultOptions))

Clear(m) ==
    \E order \in SortOrders :
        Commit(clear(World, m, DefaultOptions, order))

\* One model, constructed empty; any sequence of calls on it.
Next ==
    \/ AddCell("M1")
    \/ AddCells("M1")
    \/ RemoveCell("M1")
    \/ RemoveCells("M1")
    \/ ResetCells("M1")
    \/ Clear("M1")

Spec == Init /\ [][Next]_vars

\* The same calls on a model constructed with a list of cells.
SpecCtor == InitCtor /\ [][Next]_vars

\* Two models sharing cells: the calls with one cell, and clear, on either
\* model, over the cells of the edge E and its nodes.
SharedCells == Cells \cap {"A", "B", "E"}

AddShared(m) ==
    \E cell \in SharedCells :
        Commit(addCell(World, m, cell, DefaultOptions))

RemoveShared(m) ==
    \E cell \in SharedCells, options \in RemoveOptions :
        Commit(removeCell(World, m, cell, options))

NextTwo ==
    \/ \E m \in Models : AddShared(m)
    \/ \E m \in Models : RemoveShared(m)
    \/ \E m \in Models : Clear(m)

InitTwo ==
    /\ InitCells(Shape("E" :> "A" @@ "F" :> "B", "E" :> "B" @@ "F" :> "A",
                       "B" :> <<"F">>))
    /\ Constructed(<<>>)

SpecTwo == InitTwo /\ [][NextTwo]_vars

\* Two models, the node A and its edge E: the cells are added to either model
\* and removed from either, so that a model is asked to remove cells it never
\* held, cells it lost and cells the other model holds.
MemberCells == {"A", "E"}

AddMember(m) ==
    \E cell \in MemberCells :
        Commit(addCell(World, m, cell, DefaultOptions))

RemoveMember(m) ==
    \E cell \in MemberCells, options \in RemoveOptions :
        Commit(removeCell(World, m, cell, options))

NextMembers ==
    \/ \E m \in Models : AddMember(m)
    \/ \E m \in Models : RemoveMember(m)

SpecMembers == InitTwo /\ [][NextMembers]_vars

\* The batch calls on one model, with the calls that open a batch themselves,
\* over the node A and the edge E at it; at most MaxBatchCalls calls of
\* startBatch and stopBatch are made.
BatchCells == Cells \cap {"A", "E"}

BatchLists ==
    UNION {{s \in [1..n -> BatchCells] : \A i, j \in 1..n : i /= j => s[i] /= s[j]} :
           n \in 0..MaxListLen}

\* The batch:start / batch:stop events of a call on M1, by name.
BatchEvents(w, type, name) ==
    {i \in 1..Len(w.events) :
        /\ w.events[i].type = type
        /\ w.events[i].model = "M1"
        /\ w.events[i].name = name}

RECURSIVE Sum(_, _)
Sum(f, S) ==
    IF S = {} THEN 0
    ELSE LET x == CHOOSE y \in S : TRUE IN f[x] + Sum(f, S \ {x})

CommitCounted(w) ==
    /\ Effects(w)
    /\ starts' = [b \in BatchNames |->
                      starts[b] + Cardinality(BatchEvents(w, "batch:start", b))]
    /\ stops' = [b \in BatchNames |->
                     stops[b] + Cardinality(BatchEvents(w, "batch:stop", b))]
    /\ Sum(starts', BatchNames) + Sum(stops', BatchNames) <= MaxBatchCalls

\* The functions a caller hands to executeBatch.
Callbacks == [kind : {"add", "remove", "outgoing"}, cell : BatchCells]

StartBatch(m) ==
    \E name \in BatchNames :
        CommitCounted(startBatch(World, m, name))

StopBatch(m) ==
    \E name \in BatchNames :
        CommitCounted(stopBatch(World, m, name))

ExecuteBatch(m) ==
    \E name \in BatchNames, execute \in Callbacks :
        CommitCounted(executeBatch(World, m, name, execute))

AddCellsInBatch(m) ==
    \E cells \in BatchLists :
        CommitCounted(addCells(World, m, cells, DefaultOptions))

RemoveCellsInBatch(m) ==
    \E cells \in BatchLists, options \in RemoveOptions :
        CommitCounted(removeCells(World, m, cells, options))

ClearInBatch(m) ==
    \E order \in SortOrders :
        CommitCounted(clear(World, m, DefaultOptions, order))

NextBatch ==
    \/ StartBatch("M1")
    \/ StopBatch("M1")
    \/ ExecuteBatch("M1")
    \/ AddCellsInBatch("M1")
    \/ RemoveCellsInBatch("M1")
    \/ ClearInBatch("M1")

InitBatch ==
    /\ InitCells(Shape("E" :> "A", "E" :> "A", NoKids))
    /\ Constructed(<<>>)

SpecBatch == InitBatch /\ [][NextBatch]_vars

\* The queries: a model that was given a graph with addCells, and loses cells
\* of it, with their edges or (the `clear` flag) without.  The graphs are over the first MaxGraphCells of the
\* names below.
GraphNames == <<"A", "B", "E", "C", "F", "D", "K", "L">>
GraphCells == {GraphNames[i] : i \in 1..MaxGraphCells}
GraphList == SelectSeq(GraphNames, LAMBDA c : c \in GraphCells)

GraphShapes ==
    { \* a chain with a shortcut: A -E-> B -F-> C -K-> D, A -L-> C
      Shape("E" :> "A" @@ "F" :> "B" @@ "K" :> "C" @@ "L" :> "A",
            "E" :> "B" @@ "F" :> "C" @@ "K" :> "D" @@ "L" :> "C", NoKids),
      \* a star: A -E-> B, A -F-> C, A -K-> D, and B -L-> C
      Shape("E" :> "A" @@ "F" :> "A" @@ "K" :> "A" @@ "L" :> "B",
            "E" :> "B" @@ "F" :> "C" @@ "K" :> "D" @@ "L" :> "C", NoKids),
      \* a cycle: A -E-> B -F-> C -K-> A, and A -L-> C
      Shape("E" :> "A" @@ "F" :> "B" @@ "K" :> "C" @@ "L" :> "A",
            "E" :> "B" @@ "F" :> "C" @@ "K" :> "A" @@ "L" :> "C", NoKids),
      \* a self-loop and multi-edges: A -E-> A, A -F-> B, A -K-> B, B -L-> A
      Shape("E" :> "A" @@ "F" :> "A" @@ "K" :> "A" @@ "L" :> "B",
            "E" :> "A" @@ "F" :> "B" @@ "K" :> "B" @@ "L" :> "A", NoKids),
      \* edges attached to edges: A -E-> F, B -F-> C, E -K-> F, K -L-> D
      Shape("E" :> "A" @@ "F" :> "B" @@ "K" :> "E" @@ "L" :> "K",
            "E" :> "F" @@ "F" :> "C" @@ "K" :> "F" @@ "L" :> "D", NoKids),
      \* edges attached to each other: A -E-> F, B -F-> E, C -K-> D, E -L-> F
      Shape("E" :> "A" @@ "F" :> "B" @@ "K" :> "C" @@ "L" :> "E",
            "E" :> "F" @@ "F" :> "E" @@ "K" :> "D" @@ "L" :> "F", NoKids),
      \* containment: A embeds B and C, B embeds D; B -E-> C, C -F-> D,
      \* A -K-> D, B -L-> B
      Shape("E" :> "B" @@ "F" :> "C" @@ "K" :> "A" @@ "L" :> "B",
            "E" :> "C" @@ "F" :> "D" @@ "K" :> "D" @@ "L" :> "B",
            "A" :> <<"B", "C">> @@ "B" :> <<"D">>),
      \* fixed points: A -E-> (point), (point) -F-> B, C -K-> D, D -L-> C
      Shape("E" :> "A" @@ "K" :> "C" @@ "L" :> "D",
            "F" :> "B" @@ "K" :> "D" @@ "L" :> "C", NoKids) }

\* new Model(), with new cells: the world before the first call.
NewWorld(shape) ==
    [collection |-> [m \in Models |-> <<>>],
     nodes |-> [m \in Models |-> <<>>],
     edges |-> [m \in Models |-> <<>>],
     batches |-> [m \in Models |-> [b \in BatchNames |-> 0]],
     addings |-> [m \in Models |-> {}],
     cellModel |-> [c \in CellIds |-> NoModel],
     zIndex |-> [c \in CellIds |-> <<>>],
     source |-> [e \in EdgeIds |-> TerminalOf(shape.source, e)],
     target |-> [e \in EdgeIds |-> TerminalOf(shape.target, e)],
     events |-> <<>>, muts |-> <<>>]

\* new Model().addCells(cells of the graph)
InitGraph ==
    \E shape \in GraphShapes :
        /\ children = [c \in CellIds |-> ChildrenOf(shape.children, c)]
        /\ LET w == addCells(NewWorld(shape), "M1", GraphList, DefaultOptions)
           IN /\ collection = w.collection
              /\ nodes = w.nodes
              /\ edges = w.edges
              /\ batches = w.batches
              /\ addings = w.addings
              /\ cellModel = w.cellModel
              /\ zIndex = w.zIndex
              /\ source = w.source
              /\ target = w.target
        /\ starts = [b \in BatchNames |-> 0]
        /\ stops = [b \in BatchNames |-> 0]

GraphOptions == {DefaultOptions, ClearOptions}

\* The lists of cells of the model a caller passes to a query.
GraphLists ==
    UNION {[1..n -> GraphCells \cap Range(collection["M1"])] : n \in 0..MaxListLen}

RemoveFromGraph(m) ==
    \E cell \in GraphCells, options \in GraphOptions :
        Commit(removeCell(World, m, cell, options))

NextGraph ==
    \/ RemoveFromGraph("M1")

SpecGraph == InitGraph /\ [][NextGraph]_vars

\* ------------------------------------------------------------------ claims

\* What a call leaves behind: the world without the logs of the call.
Continue(w) == [w EXCEPT !.events = <<>>, !.muts = <<>>]

Coll(w, m) == Range(w.collection[m])

\* The cells of the events of one type, in the order of their delivery.
EventCells(w, type) ==
    LET es == SelectSeq(w.events, LAMBDA ev : ev.type = type)
    IN [i \in 1..Len(es) |-> es[i].cell]

\* The IDs the terminals of an edge store.
TerminalIds(w, e) == {getSourceCellId(w, e), getTargetCellId(w, e)} \ {NoCell}

EdgesIn(w, m) == Coll(w, m) \cap EdgeIds

\* Every terminal that references a cell references a cell in the model.
NoDangling(w, m) == \A e \in EdgesIn(w, m) : TerminalIds(w, e) \subseteq Coll(w, m)

\* C1: the membership caches `nodes` and `edges` are disjoint and their union
\* is the set of IDs of the cells in the collection, in every state reachable
\* from a model constructed with any list of cells.
MembershipPartition ==
    /\ Range(nodes["M1"]) \cap Range(edges["M1"]) = {}
    /\ Range(nodes["M1"]) \cup Range(edges["M1"]) = Range(getCells(World, "M1"))

DisconnectReplacesTerminals ==
    \A a \in Coll(World, "M1") :
        LET w == removeCell(World, "M1", a, DisconnectOptions)
        IN /\ Coll(w, "M1") = Coll(World, "M1") \ {a}
           /\ \A e \in EdgesIn(World, "M1") \ {a} :
                  /\ w.source[e] = IF getSourceCellId(World, e) = a
                                   THEN PointTerminal(0, 0) ELSE source[e]
                  /\ w.target[e] = IF getTargetCellId(World, e) = a
                                   THEN PointTerminal(0, 0) ELSE target[e]

\* C4: during clear() every edge is removed (its cell:removed is emitted)
\* before any node is removed.
ClearRemovesEdgesFirst ==
    \A order \in SortOrders :
        LET removed == EventCells(clear(World, "M1", DefaultOptions, order),
                                  "cell:removed")
        IN \A i, j \in 1..Len(removed) :
               isEdge(removed[i]) /\ isNode(removed[j]) => i < j

AddCellIdempotent ==
    \A c \in Cells :
        LET w1 == addCell(World, "M1", c, DefaultOptions)
            w2 == addCell(Continue(w1), "M1", c, DefaultOptions)
        IN /\ c \in Coll(w1, "M1")
           /\ Continue(w2) = Continue(w1)
           /\ w2.events = <<>>

\* A cell outside a non-empty model whose first addCell adds it, behind
\* cells of a lower zIndex or not.
AddCellIdempotentWitness ==
    /\ collection["M1"] /= <<>>
    /\ \E c \in Cells \ Coll(World, "M1") :
           /\ zIndex[c] /= <<>>
           /\ c \in Coll(addCell(World, "M1", c, DefaultOptions), "M1")

\* The cells below c in the containment relation.
RECURSIVE Below(_, _)
Below(cs, n) ==
    IF n = 0 THEN cs
    ELSE Below(cs \cup UNION {Range(children[c]) : c \in cs}, n - 1)

Descendants(c) == Below(Range(children[c]), Cardinality(CellIds))
Subtree(c) == {c} \cup Descendants(c)
IsTree(c) == \A d \in Subtree(c) : d \notin Descendants(d)

\* C7: addCell(c), for c and its n-cell containment subtree outside the model,
\* adds exactly the n cells and emits n cell:added events, one per cell, the
\* event of a cell before those of its descendants.
AddCellAddsSubtree ==
    \A c \in Cells :
        (IsTree(c) /\ Subtree(c) \cap Coll(World, "M1") = {}) =>
            LET w == addCell(World, "M1", c, DefaultOptions)
                added == EventCells(w, "cell:added")
            IN /\ Coll(w, "M1") = Coll(World, "M1") \cup Subtree(c)
               /\ Len(added) = Cardinality(Subtree(c))
               /\ Range(added) = Subtree(c)
               /\ \A i, j \in 1..Len(added) :
                      added[j] \in Descendants(added[i]) => i < j

\* A node with two children, all three outside the model after they were
\* in it (their zIndex is set).
AddCellAddsSubtreeWitness ==
    \E c \in Nodes :
           /\ \A d \in Subtree(c) : zIndex[d] /= <<>>
           /\ IsTree(c) /\ Subtree(c) \cap Coll(World, "M1") = {}
           /\ Len(children[c]) = 2 /\ Cardinality(Subtree(c)) = 3
           /\ Len(EventCells(addCell(World, "M1", c, DefaultOptions), "cell:added")) = 3

\* C8: no cell is a member of the collections of two models at once.
OneCollectionPerCell ==
    \A c \in Cells : ~(c \in Coll(World, "M1") /\ c \in Coll(World, "M2"))

\* C9: on a single model M, c.model = M exactly for the cells of M's
\* collection.
BackReferenceIsMembership ==
    \A c \in Cells : cellModel[c] = "M1" <=> c \in Coll(World, "M1")

\* The insertions and removals of a call, and its cell:added and cell:removed
\* events, as lists of <<kind, cell>>.
MutationOrder(w) ==
    [i \in 1..Len(w.muts) |-> <<w.muts[i].kind, w.muts[i].cell>>]

EventOrder(w) ==
    LET es == SelectSeq(w.events,
                        LAMBDA ev : ev.type \in {"cell:added", "cell:removed"})
    IN [i \in 1..Len(es) |->
           <<IF es[i].type = "cell:added" THEN "insert" ELSE "remove", es[i].cell>>]

\* C10: cell:added and cell:removed are delivered in the order in which the
\* cells entered and left the collection, in every addCell, removeCell and
\* clear.
EventsInMutationOrder ==
    /\ \A c \in Cells :
           LET w == addCell(World, "M1", c, DefaultOptions)
           IN EventOrder(w) = MutationOrder(w)
    /\ \A c \in Cells, options \in RemoveOptions :
           LET w == removeCell(World, "M1", c, options)
           IN EventOrder(w) = MutationOrder(w)
    /\ \A order \in SortOrders :
           LET w == clear(World, "M1", DefaultOptions, order)
           IN EventOrder(w) = MutationOrder(w)

\* The events of a call that carry a cell.
CellEvents(w) == {i \in 1..Len(w.events) : w.events[i].cell /= NoCell}

\* The call that led from w0 to w was one batch of the name: one batch:start
\* before and one batch:stop after all its cell events, the name active at
\* each of them, and the counters as they were.
OneBatch(w0, w, name) ==
    /\ Cardinality(BatchEvents(w, "batch:start", name)) = 1
    /\ Cardinality(BatchEvents(w, "batch:stop", name)) = 1
    /\ \A s \in BatchEvents(w, "batch:start", name),
          t \in BatchEvents(w, "batch:stop", name) :
           /\ s < t
           /\ \A i \in CellEvents(w) : s < i /\ i < t
    /\ \A i \in CellEvents(w) : name \in w.events[i].active
    /\ w.batches = w0.batches

\* C11: addCells and removeCells on a non-empty list and clear on a non-empty
\* model emit exactly one batch:start of their name before the first cell
\* event and one batch:stop after the last; the name is active at every cell
\* event, and the counter is back at its value when the call returns.
CallsAreOneBatch ==
    /\ \A cells \in BatchLists \ {<<>>} :
           /\ OneBatch(World, addCells(World, "M1", cells, DefaultOptions), "add")
           /\ \A options \in RemoveOptions :
                  OneBatch(World, removeCells(World, "M1", cells, options), "remove")
    /\ collection["M1"] /= <<>> =>
           \A order \in SortOrders :
               OneBatch(World, clear(World, "M1", DefaultOptions, order), "clear")

\* C12: the counter of a name is its startBatch calls less its stopBatch
\* calls; hasActiveBatch of a name is true iff there were more starts than
\* stops of that name, and hasActiveBatch of a list, or of no argument, iff
\* it is so for one of the names.
ActiveIffMoreStarts ==
    /\ \A n \in BatchNames :
           /\ batches["M1"][n] = starts[n] - stops[n]
           /\ hasActiveBatch(World, "M1", {n}) <=> starts[n] > stops[n]
    /\ \A names \in SUBSET BatchNames :
           hasActiveBatch(World, "M1", names) <=> \E n \in names : starts[n] > stops[n]
    /\ hasActiveBatchOfAll(World, "M1") <=> \E n \in BatchNames : starts[n] > stops[n]

\* Two nested starts of a name and one stop: the name is still active, and
\* another name, stopped as often as started, is not.
ActiveIffMoreStartsWitness ==
    /\ starts["add"] = 2 /\ stops["add"] = 1
    /\ starts["clear"] = 1 /\ stops["clear"] = 1
    /\ hasActiveBatch(World, "M1", {"add"})
    /\ ~hasActiveBatch(World, "M1", {"clear"})

\* The arcs of a model: one from the source to the target of every edge of
\* the collection whose terminals both name a cell, and the reverse arc unless
\* `directed`.
ArcsOf(w, m, directed) ==
    LET forward == {<<getSourceCellId(w, e), getTargetCellId(w, e)>> :
                       e \in {x \in EdgesIn(w, m) :
                                 /\ getSourceCellId(w, x) /= NoCell
                                 /\ getTargetCellId(w, x) /= NoCell}}
    IN IF directed THEN forward ELSE forward \cup {<<a[2], a[1]>> : a \in forward}

\* The IDs a walk of at most n arcs leads to from s.
RECURSIVE WalksFrom(_, _, _)
WalksFrom(arcs, s, n) ==
    IF n = 0 THEN {s}
    ELSE LET near == WalksFrom(arcs, s, n - 1)
         IN near \cup {a[2] : a \in {x \in arcs : x[1] \in near}}

Reachable(arcs, s, t) == t \in WalksFrom(arcs, s, Cardinality(CellIds))

\* The least number of arcs of a walk from s to t, for t reachable from s.
Hops(arcs, s, t) ==
    CHOOSE n \in 0..Cardinality(CellIds) :
        /\ t \in WalksFrom(arcs, s, n)
        /\ n > 0 => t \notin WalksFrom(arcs, s, n - 1)

ShortestPathEmptyIffUnreachable ==
    \A s, t \in GraphCells, directed \in BOOLEAN :
        \A path \in getShortestPath(World, "M1", s, t, directed) :
            IF Reachable(ArcsOf(World, "M1", directed), s, t)
            THEN path /= <<>> /\ path[Len(path)] = t
            ELSE path = <<>>

\* The cells of a list the model holds, and the list has no cell twice.
Cellset(list) == Range(list)
NoRepeat(list) == Cardinality(Range(list)) = Len(list)

\* C15: for any list of cells and any `deep`, the source cell and the target
\* cell of every edge in the result of getSubGraph, edges among them, are in
\* the result, and the result holds no cell twice.
SubGraphSelfContained ==
    \A cells \in GraphLists, deep \in BOOLEAN :
        LET sg == getSubGraph(World, "M1", cells, [deep |-> deep])
        IN sg.status = "ok" =>
               /\ NoRepeat(sg.subgraph)
               /\ \A e \in Cellset(sg.subgraph) \cap EdgeIds :
                      {getSourceCell(World, e), getTargetCell(World, e)} \ {NoCell}
                          \subseteq Cellset(sg.subgraph)

\* An edge of the model from the node a to the node b.
Connects(e, a, b) ==
    /\ e \in EdgesIn(World, "M1")
    /\ getSourceCell(World, e) = a
    /\ getTargetCell(World, e) = b

\* Nodes a and b of the model with an edge e from a to b, and a node c of the
\* model that no edge joins to a or to b.
EdgeAndDisjointNode(e, a, b, c) ==
    /\ {a, b, c} \subseteq Coll(World, "M1") \cap NodeIds
    /\ a /= b /\ c /= a /\ c /= b
    /\ Connects(e, a, b)
    /\ \A x \in EdgesIn(World, "M1") :
           c \in TerminalIds(World, x) => TerminalIds(World, x) = {c}

\* C16, as claimed: where an edge connects A to B and C is connected to
\* neither, getSubGraph([A]) contains A and B and does not contain C.
SubGraphPullsOtherEnd ==
    \A e \in EdgeIds, a, b, c \in NodeIds :
        EdgeAndDisjointNode(e, a, b, c) =>
            LET sg == getSubGraph(World, "M1", <<a>>, [deep |-> FALSE])
            IN /\ a \in Cellset(sg.subgraph)
               /\ b \in Cellset(sg.subgraph)
               /\ c \notin Cellset(sg.subgraph)

\* C16, amended: getSubGraph([A]) contains A and contains neither B, the
\* edge nor C; getSubGraph([e]) of the edge contains the edge, A and B, and
\* does not contain C.
SubGraphPullsEndsOfEdges ==
    \A e \in EdgeIds, a, b, c \in NodeIds :
        EdgeAndDisjointNode(e, a, b, c) =>
            LET ofNode == getSubGraph(World, "M1", <<a>>, [deep |-> FALSE])
                ofEdge == getSubGraph(World, "M1", <<e>>, [deep |-> FALSE])
            IN /\ ofNode.status = "ok" /\ ofEdge.status = "ok"
               /\ a \in Cellset(ofNode.subgraph)
               /\ Cellset(ofNode.subgraph) \cap {b, c, e} = {}
               /\ {e, a, b} \subseteq Cellset(ofEdge.subgraph)
               /\ c \notin Cellset(ofEdge.subgraph)

\* A -> B twice over and a self-loop at A, with C apart: getSubGraph([A]) is A
\* and its self-loop.
SubGraphPullsEndsOfEdgesWitness ==
    /\ EdgeAndDisjointNode("F", "A", "B", "C")
    /\ Connects("E", "A", "A")
    /\ getSubGraph(World, "M1", <<"A">>, [deep |-> FALSE]).subgraph = <<"A", "E">>
    /\ Cellset(getSubGraph(World, "M1", <<"F">>, [deep |-> FALSE]).subgraph)
           = {"F", "A", "B", "E", "K"}

\* The direction options of a search: none given, outgoing only, incoming
\* only.
Directions ==
    {NoDirection, [NoDirection EXCEPT !.outgoing = <<TRUE>>],
     [NoDirection EXCEPT !.incoming = <<TRUE>>]}

\* The neighbor relation of a model: an arc from every cell of the collection
\* to each of its getNeighbors.
NeighborArcs(w, m, options) ==
    {<<a, b>> : a \in Coll(w, m), b \in CellIds} \cap
    UNION {{<<a, b>> : b \in Range(getNeighbors(w, m, a, options))} :
              a \in Coll(w, m)}

\* The distances the iterator was called with for a cell.
DistancesOf(visits, cell) ==
    {visits[i][2] : i \in {j \in 1..Len(visits) : visits[j][1] = cell}}

\* C17: in breadthFirstSearch from c with an iterator that never returns
\* false, every cell reachable from c through the neighbor relation is passed
\* to the iterator with its minimum number of hops from c, 0 for c.
BreadthFirstDistanceIsHops ==
    \A c \in Coll(World, "M1"), options \in Directions :
        LET arcs == NeighborArcs(World, "M1", options)
            found == breadthFirstSearch(World, "M1", c, {}, options)
        IN \A x \in WalksFrom(arcs, c, Cardinality(CellIds)) :
               DistancesOf(found.visits, x) = {Hops(arcs, c, x)}

\* The sets of cells an iterator returns false for: none, or one cell.
PrunedSets(w, m) == {{}} \cup {{x} : x \in Coll(w, m)}

\* The cells the iterator was called with, in order.
VisitedCells(visits) == [i \in 1..Len(visits) |-> visits[i][1]]

\* C18: in a breadth-first and in a depth-first search the iterator is called
\* at most once per cell; the cells it is called with are the start cell and
\* the cells that a walk along getNeighbors (with the direction options of the
\* search) reaches from it without leaving a cell for which the iterator
\* returned false; so with an iterator that never returns false they are the
\* cells reachable from the start cell.
SearchVisitsReachableOnce ==
    \A options \in Directions :
        LET arcs == NeighborArcs(World, "M1", options)
        IN \A c \in Coll(World, "M1"), pruned \in PrunedSets(World, "M1"),
              breadthFirst \in BOOLEAN :
               LET found == search(World, "M1", c, pruned, options, breadthFirst)
                   unpruned == {a \in arcs : a[1] \notin pruned}
               IN /\ found.status = "ok"
                  /\ NoRepeat(VisitedCells(found.visits))
                  /\ Cellset(VisitedCells(found.visits))
                         = WalksFrom(unpruned, c, Cardinality(CellIds))

\* The cycle A -> B -> C -> A.  Along outgoing edges, a search from A whose
\* iterator returns false for B stops at B; in both directions it still
\* visits C, the other neighbor of A; without pruning it visits all three.
SearchVisitsReachableOnceWitness ==
    /\ ArcsOf(World, "M1", TRUE) = {<<"A", "B">>, <<"B", "C">>, <<"C", "A">>}
    /\ VisitedCells(depthFirstSearch(World, "M1", "A", {"B"},
                        [NoDirection EXCEPT !.outgoing = <<TRUE>>]).visits)
           = <<"A", "B">>
    /\ Cellset(VisitedCells(breadthFirstSearch(World, "M1", "A", {"B"},
                                               NoDirection).visits))
           = {"A", "B", "C"}
    /\ VisitedCells(depthFirstSearch(World, "M1", "A", {},
                        [NoDirection EXCEPT !.outgoing = <<TRUE>>]).visits)
           = <<"A", "B", "C">>

\* Every combination of the options of getConnectedEdges: each direction
\* left out, true or false.
Flags == {Unset, <<TRUE>>, <<FALSE>>}
EdgeOptions ==
    [incoming : Flags, outgoing : Flags, indirect : BOOLEAN, deep : BOOLEAN,
     enclosed : BOOLEAN]

\* C19: for every cell of the model and every combination of incoming,
\* outgoing, indirect, deep and enclosed, the list getConnectedEdges returns
\* holds no edge twice.
ConnectedEdgesHasNoDuplicates ==
    \A cell \in Coll(World, "M1"), options \in EdgeOptions :
        LET found == ConnectedEdges(World, "M1", cell, options)
        IN found.status = "ok" => NoRepeat(found.result)

\* C20: on every model, getConnectedEdges with any flags, getNeighbors, both
\* searches and getSubGraph come to an end: none of them recurses for ever,
\* also where edges have each other as terminals and where the graph has
\* cycles, self-loops or multi-edges.
QueriesTerminate ==
    /\ \A cell \in Coll(World, "M1"), options \in EdgeOptions :
           /\ ConnectedEdges(World, "M1", cell, options).status /= "diverged"
           /\ Neighbors(World, "M1", cell, options).status /= "diverged"
    /\ \A cell \in Coll(World, "M1"), options \in Directions,
          breadthFirst \in BOOLEAN :
           search(World, "M1", cell, {}, options, breadthFirst).status
               /= "diverged"
    /\ \A cells \in GraphLists, deep \in BOOLEAN :
           getSubGraph(World, "M1", cells, [deep |-> deep]).status /= "diverged"

\* The events of a call that carry a cell, in the order of their delivery.
CellEventsOf(w) == SelectSeq(w.events, LAMBDA ev : ev.cell /= NoCell)

\* The cells of a list that the model holds.
Present(w, m, list) == SelectSeq(list, LAMBDA c : CollectionHas(w, m, c))

\* C21: removeCell with an ID the model does not hold, or with a cell that is
\* not a member (it may be a member of the other model), changes nothing and
\* emits nothing; removeCell twice leaves the state of removeCell once, the
\* second call emitting nothing; and removeCells of a list of an absent and a
\* present cell, in either order, leaves the state, and emits the cell
\* events, of removeCells of the present cell alone.
RemoveAbsentIsNoOp ==
    \A m \in Models, options \in RemoveOptions :
        /\ \A c \in (CellIds \cup {NoCell}) \ Coll(World, m) :
               removeCell(World, m, c, options) = World
        /\ \A c \in Cells :
               LET once == removeCell(World, m, c, options)
               IN removeCell(Continue(once), m, c, options) = Continue(once)
        /\ \A a \in Cells \ Coll(World, m), b \in Coll(World, m) :
               \A cells \in {<<a, b>>, <<b, a>>} :
                   LET whole == removeCells(World, m, cells, options)
                       part == removeCells(World, m, Present(World, m, cells),
                                           options)
                   IN /\ Present(World, m, cells) = <<b>>
                      /\ Continue(whole) = Continue(part)
                      /\ CellEventsOf(whole) = CellEventsOf(part)

\* M1 holds the edge E and not the node A, which is a member of M2:
\* removeCell(A) on M1 changes nothing, and removeCells([A, E]) removes E
\* alone.
RemoveAbsentIsNoOpWitness ==
    /\ "E" \in Coll(World, "M1")
    /\ "A" \in Coll(World, "M2") \ Coll(World, "M1")
    /\ removeCell(World, "M1", "A", DefaultOptions) = World
    /\ LET w == removeCells(World, "M1", <<"A", "E">>, DefaultOptions)
       IN /\ Coll(w, "M1") = Coll(World, "M1") \ {"E"}
          /\ Coll(w, "M2") = Coll(World, "M2")
          /\ [i \in 1..Len(CellEventsOf(w)) |-> CellEventsOf(w)[i].type]
                 = <<"cell:removed", "edge:removed">>

\* C22: called with an ID the model does not hold, getConnectedEdges,
\* getOutgoingEdges and getIncomingEdges return the empty list and do not
\* throw, and removeEdges and disconnectEdges change nothing.
UnknownIdHasNoEdges ==
    \A id \in CellIds \ Coll(World, "M1") :
        /\ \A isOutgoing \in BOOLEAN :
               EdgesById(World, "M1", id, isOutgoing)
                   = [status |-> "ok", edges |-> <<>>]
        /\ \A options \in EdgeOptions :
               LET found == getConnectedEdgesById(World, "M1", id, options)
               IN found.status = "ok" /\ found.result = <<>>
        /\ \A options \in RemoveOptions :
               /\ removeEdgesById(World, "M1", id, options) = World
               /\ disconnectEdgesById(World, "M1", id, options) = World

\* The edges of the model that leave the cell c, and those that enter it.
EdgesFrom(w, m, c) == {e \in EdgesIn(w, m) : getSourceCellId(w, e) = c}
EdgesInto(w, m, c) == {e \in EdgesIn(w, m) : getTargetCellId(w, e) = c}

\* The nodes of the model at the far end of those edges.
TargetNodes(w, m, c) ==
    {getTargetCell(w, e) : e \in EdgesFrom(w, m, c)} \cap NodeIds
SourceNodes(w, m, c) ==
    {getSourceCell(w, e) : e \in EdgesInto(w, m, c)} \cap NodeIds

OutgoingOnly == [NoDirection EXCEPT !.outgoing = <<TRUE>>]
IncomingOnly == [NoDirection EXCEPT !.incoming = <<TRUE>>]

\* C23: for a node c of the model, getNeighbors(c) holds no cell twice and no
\* edge; with default options its cells are the nodes at the other end of the
\* edges connected to c, c among them exactly if c has a self-loop; with
\* `outgoing` only they are the target nodes of the edges that leave c, with
\* `incoming` only the source nodes of the edges that enter c.
NeighborsAreOppositeEnds ==
    \A c \in Coll(World, "M1") \cap NodeIds :
        LET both == Neighbors(World, "M1", c, NoDirection)
            out == Neighbors(World, "M1", c, OutgoingOnly)
            inc == Neighbors(World, "M1", c, IncomingOnly)
            targets == TargetNodes(World, "M1", c)
            sources == SourceNodes(World, "M1", c)
        IN /\ both.status = "ok" /\ out.status = "ok" /\ inc.status = "ok"
           /\ NoRepeat(both.result) /\ NoRepeat(out.result) /\ NoRepeat(inc.result)
           /\ Cellset(both.result) = sources \cup targets
           /\ Cellset(out.result) = targets
           /\ Cellset(inc.result) = sources
           /\ c \in Cellset(both.result) <=>
                  \E e \in EdgesIn(World, "M1") : Connects(e, c, c)
           /\ Cellset(both.result) \cap EdgeIds = {}

\* A with a self-loop and two edges to B, and an edge from B back: the
\* neighbors of A are A and B, once each, in every direction.
NeighborsAreOppositeEndsWitness ==
    /\ Connects("E", "A", "A") /\ Connects("F", "A", "B")
    /\ Connects("K", "A", "B")
    /\ getNeighbors(World, "M1", "A", NoDirection) = <<"A", "B">>
    /\ getNeighbors(World, "M1", "A", OutgoingOnly) = <<"A", "B">>
    /\ getNeighbors(World, "M1", "B", OutgoingOnly) = <<>>
    /\ getNeighbors(World, "M1", "B", IncomingOnly) = <<"A">>

\* The direction flags of a query, each left out, true or false.
DirectionFlags ==
    {o \in EdgeOptions : ~o.indirect /\ ~o.deep /\ ~o.enclosed}

\* C24: for all nodes c1 and c2 of the model, c2 = c1 included, and all
\* direction flags, isNeighbor(c1, c2) is true exactly if c2 is in
\* getNeighbors(c1).
IsNeighborIffInNeighbors ==
    \A c1, c2 \in Coll(World, "M1") \cap NodeIds, options \in DirectionFlags :
        isNeighbor(World, "M1", c1, c2, options)
            <=> c2 \in Cellset(getNeighbors(World, "M1", c1, options))

\* The arcs between nodes: from the source node to the target node of every
\* edge of the model whose terminals are both nodes of the model.
NodeArcs(w, m) ==
    {<<getSourceCell(w, e), getTargetCell(w, e)>> :
        e \in {x \in EdgesIn(w, m) :
                  /\ getSourceCell(w, x) \in NodeIds
                  /\ getTargetCell(w, x) \in NodeIds}}

Reversed(arcs) == {<<a[2], a[1]>> : a \in arcs}

\* The nodes other than s that a walk along the arcs reaches from s.
ReachedFrom(arcs, s) == WalksFrom(arcs, s, Cardinality(CellIds)) \ {s}

\* C25: for all nodes a and b of the model, getSuccessors(a) holds no cell
\* twice and its cells are the nodes other than a reachable from a along
\* edges from source to target; isSuccessor(a, b) iff b is in
\* getSuccessors(a); getPredecessors and isPredecessor are the same from
\* target to source; and isPredecessor(a, b) iff isSuccessor(b, a).
SuccessorsAreReachable ==
    \A a \in Coll(World, "M1") \cap NodeIds :
        LET arcs == NodeArcs(World, "M1")
            successors == getSuccessors(World, "M1", a)
            predecessors == getPredecessors(World, "M1", a)
        IN /\ NoRepeat(successors) /\ NoRepeat(predecessors)
           /\ Cellset(successors) = ReachedFrom(arcs, a)
           /\ Cellset(predecessors) = ReachedFrom(Reversed(arcs), a)
           /\ \A b \in Coll(World, "M1") \cap NodeIds :
                  /\ isSuccessor(World, "M1", a, b) <=> b \in Cellset(successors)
                  /\ isPredecessor(World, "M1", a, b)
                         <=> b \in Cellset(predecessors)
                  /\ isPredecessor(World, "M1", a, b)
                         <=> isSuccessor(World, "M1", b, a)

\* The chain A -> B -> C -> D: the successors of B are C and D, its
\* predecessor is A.
SuccessorsAreReachableWitness ==
    /\ NodeArcs(World, "M1") = {<<"A", "B">>, <<"B", "C">>, <<"C", "D">>}
    /\ getSuccessors(World, "M1", "B") = <<"C", "D">>
    /\ getPredecessors(World, "M1", "B") = <<"A">>
    /\ isSuccessor(World, "M1", "A", "D")
    /\ ~isSuccessor(World, "M1", "D", "A")
    /\ isPredecessor(World, "M1", "D", "A")

\* C26: in the search of isSuccessor(c1, c2) and of isPredecessor(c1, c2),
\* the iterator is called with no cell after it was called with c2.
PredicatesShortCircuit ==
    \A c1, c2 \in Coll(World, "M1") \cap NodeIds,
       options \in {OutgoingOnly, IncomingOnly} :
        LET visits == SearchFor(World, "M1", c1, c2, options).visits
        IN Found(visits, c1, c2) => visits[Len(visits)][1] = c2

\* The lists of one cell and of two different cells.
OneOrTwo ==
    {<<a>> : a \in Cells} \cup
    {<<x[1], x[2]>> : x \in {y \in Cells \X Cells : y[1] /= y[2]}}

\* The highest zIndex among the cells of the model, 0 for an empty model.
HighestZ(w, m) ==
    IF Coll(w, m) = {} THEN 0
    ELSE CHOOSE z \in {getZIndex(w, c) : c \in Coll(w, m)} :
             \A c \in Coll(w, m) : getZIndex(w, c) <= z

\* What the call that led from w0 to w with the list `cells` did to the
\* zIndex of the cells of the list: a zIndex that was set is kept; a cell
\* that had none and is in the model now has one, higher than that of every
\* cell of the list before it that is in the model; and when the first cell
\* had none and `fresh`, its zIndex is one more than the highest there was.
ZIndexInOrder(w0, w, m, cells, fresh) ==
    /\ \A c \in Range(cells) : w0.zIndex[c] /= <<>> => w.zIndex[c] = w0.zIndex[c]
    /\ \A i \in 1..Len(cells) :
           (w0.zIndex[cells[i]] = <<>> /\ cells[i] \in Coll(w, m)) =>
               /\ w.zIndex[cells[i]] /= <<>>
               /\ \A j \in 1..(i - 1) :
                      cells[j] \in Coll(w, m) =>
                          getZIndex(w, cells[j]) < getZIndex(w, cells[i])
    /\ (fresh /\ w0.zIndex[cells[1]] = <<>>) =>
           w.zIndex[cells[1]] = <<HighestZ(w0, m) + 1>>

\* C27: a cell without a zIndex that addCell, addCells or resetCells inserts
\* gets one more than the highest zIndex of the cells in the model ahead of
\* it, 1 in an empty model; a cell with a zIndex keeps it; so cells inserted
\* one after another without a zIndex get strictly increasing values.
ZIndexIsNextHighest ==
    \A cells \in OneOrTwo :
        /\ ZIndexInOrder(World, addCell(World, "M1", cells[1], DefaultOptions),
                         "M1", <<cells[1]>>, TRUE)
        /\ ZIndexInOrder(World, addCells(World, "M1", cells, DefaultOptions),
                         "M1", cells, TRUE)
        /\ ZIndexInOrder(World, resetCells(World, "M1", cells, DefaultOptions),
                         "M1", cells, Coll(World, "M1") = {})

\* The batch events of a call for one name: as many stops as starts.
StartsAreStopped(w, name) ==
    Cardinality(BatchEvents(w, "batch:start", name))
        = Cardinality(BatchEvents(w, "batch:stop", name))

\* C28: executeBatch(name, fn) leaves the counter of `name` as it was before
\* the call, and as many batch:stop as batch:start events, when fn returns
\* and when fn throws; so do removeCells and clear.
ExecuteBatchRestoresCounter ==
    /\ \A name \in BatchNames, execute \in Callbacks :
           LET w == executeBatch(World, "M1", name, execute)
           IN /\ w.batches["M1"][name] = batches["M1"][name]
              /\ StartsAreStopped(w, name)
              /\ ~hasActiveBatch(World, "M1", {name})
                     => ~hasActiveBatch(w, "M1", {name})
    /\ \A cells \in BatchLists, options \in RemoveOptions :
           LET w == removeCells(World, "M1", cells, options)
           IN w.batches = batches /\ StartsAreStopped(w, "remove")
    /\ \A order \in SortOrders :
           LET w == clear(World, "M1", DefaultOptions, order)
           IN w.batches = batches /\ StartsAreStopped(w, "clear")

====
